---- MODULE Spec2Model ----
(***************************************************************************)
(* Model of the unified diff parser of unidiff/patch.py: PatchSet._parse   *)
(* (the scanner over the input lines) and PatchedFile._parse_hunk (the     *)
(* hunk assembler), which share one iterator over the lines of the diff.   *)
(*                                                                         *)
(* A line is a tuple of one-character strings, with its line terminator,   *)
(* as a file object yields it; the iterator hands out such a str or a      *)
(* bytes object, a tuple of octets, which the loops decode when the caller *)
(* names an encoding.  The regular expressions and the line type  *)
(* constants live in unidiff/constants.py, which is not part of the        *)
(* sources at hand: they are modelled from the grammar of the              *)
(* specification (section 6) and are marked as such below.                 *)
(***************************************************************************)
EXTENDS Integers, Sequences, FiniteSets, TLC

\* Longest input the model reads (number of items pulled from the iterator).
MaxLines == 5

----------------------------------------------------------------------------
(* Python's None, and a value that is present.                             *)
None == [some |-> FALSE]
Some(v) == [some |-> TRUE, val |-> v]

NL == "\n"
TAB == "\t"

----------------------------------------------------------------------------
(* unidiff/constants.py, modelled from the specification.                  *)

LINE_TYPE_ADDED == "+"
LINE_TYPE_REMOVED == "-"
LINE_TYPE_CONTEXT == " "
LINE_TYPE_EMPTY == NL

Digits == {"0", "1", "2", "3", "4", "5", "6", "7", "8", "9"}

DigitVal(c) ==
    CASE c = "0" -> 0 [] c = "1" -> 1 [] c = "2" -> 2 [] c = "3" -> 3
      [] c = "4" -> 4 [] c = "5" -> 5 [] c = "6" -> 6 [] c = "7" -> 7
      [] c = "8" -> 8 [] c = "9" -> 9

\* int(s) for a string of decimal digits.
RECURSIVE int(_)
int(s) ==
    IF Len(s) = 0 THEN 0
    ELSE 10 * int(SubSeq(s, 1, Len(s) - 1)) + DigitVal(s[Len(s)])

\* The text lit stands in line at position i.
LitAt(line, i, lit) ==
    /\ i + Len(lit) - 1 <= Len(line)
    /\ SubSeq(line, i, i + Len(lit) - 1) = lit

\* First position from i on whose character is in stop, or Len(line) + 1.
RECURSIVE RunEnd(_, _, _)
RunEnd(line, i, stop) ==
    IF i > Len(line) \/ line[i] \in stop THEN i
    ELSE RunEnd(line, i + 1, stop)

\* First position from i on whose character is not a digit.
RECURSIVE DigitsEnd(_, _)
DigitsEnd(line, i) ==
    IF i > Len(line) \/ line[i] \notin Digits THEN i
    ELSE DigitsEnd(line, i + 1)

\* marker path [ TAB timestamp ], with the groups filename and timestamp.
FileHeaderMatch(line, marker) ==
    LET p == Len(marker) + 1
        e == RunEnd(line, p, {TAB, NL})
        t == RunEnd(line, e + 1, {NL})
    IN  IF ~(LitAt(line, 1, marker) /\ e > p) THEN None
        ELSE Some([filename |-> SubSeq(line, p, e - 1),
                   timestamp |-> IF e <= Len(line) /\ line[e] = TAB /\ t > e + 1
                                 THEN Some(SubSeq(line, e + 1, t - 1))
                                 ELSE None])

RE_SOURCE_FILENAME(line) == FileHeaderMatch(line, <<"-", "-", "-", " ">>)

RE_TARGET_FILENAME(line) == FileHeaderMatch(line, <<"+", "+", "+", " ">>)

\* start [ "," len ] from position i: the two groups and the position after.
RangeAt(line, i) ==
    LET e == DigitsEnd(line, i)
        f == DigitsEnd(line, e + 1)
        haslen == e <= Len(line) /\ line[e] = "," /\ f > e + 1
    IN  [ok |-> e > i,
         start |-> SubSeq(line, i, e - 1),
         len |-> IF haslen THEN Some(SubSeq(line, e + 1, f - 1)) ELSE None,
         next |-> IF haslen THEN f ELSE e]

\* "@@ -" range " +" range " @@" [ " " section header ], with the five
\* groups the Hunk constructor takes.
RE_HUNK_HEADER(line) ==
    LET s == RangeAt(line, 5)
        t == RangeAt(line, s.next + 2)
        a == t.next + 3
        z == RunEnd(line, a, {NL})
    IN  IF ~(/\ LitAt(line, 1, <<"@", "@", " ", "-">>)
             /\ s.ok
             /\ LitAt(line, s.next, <<" ", "+">>)
             /\ t.ok
             /\ LitAt(line, t.next, <<" ", "@", "@">>)) THEN None
        ELSE Some([src_start |-> s.start, src_len |-> s.len,
                   tgt_start |-> t.start, tgt_len |-> t.len,
                   section_header |-> IF a <= Len(line) /\ line[a] = " "
                                      THEN SubSeq(line, a + 1, z - 1)
                                      ELSE SubSeq(line, a, z - 1)])

\* ("+" | "-" | " " | "") content, with the groups line_type and value; the
\* empty marker is the blank line.
RE_HUNK_BODY_LINE(line) ==
    IF line = <<>> \/ line = <<NL>>
    THEN Some([line_type |-> LINE_TYPE_EMPTY, value |-> <<>>])
    ELSE IF line[1] \in {LINE_TYPE_ADDED, LINE_TYPE_REMOVED, LINE_TYPE_CONTEXT}
    THEN Some([line_type |-> line[1], value |-> Tail(line)])
    ELSE None

----------------------------------------------------------------------------
(* The lines the input is made of.                                         *)

SrcF == <<"-", "-", "-", " ", "f", NL>>
SrcG == <<"-", "-", "-", " ", "g", TAB, "1", NL>>
TgtF == <<"+", "+", "+", " ", "f", NL>>
TgtG == <<"+", "+", "+", " ", "g", TAB, "2", NL>>
\* @@ -0,0 +1 @@
HunkAdd == <<"@", "@", " ", "-", "0", ",", "0", " ", "+", "1", " ", "@", "@", NL>>
\* @@ -1,2 +0,0 @@ s
HunkDel == <<"@", "@", " ", "-", "1", ",", "2", " ", "+", "0", ",", "0", " ",
             "@", "@", " ", "s", NL>>
\* @@ -12 +2,2 @@
HunkMod == <<"@", "@", " ", "-", "1", "2", " ", "+", "2", ",", "2", " ", "@", "@", NL>>
\* @@ -0,0 +0,0 @@
HunkNil == <<"@", "@", " ", "-", "0", ",", "0", " ", "+", "0", ",", "0", " ",
             "@", "@", NL>>
CtxLine == <<" ", "c", NL>>
AddLine == <<"+", "a", NL>>
DelLine == <<"-", "r", NL>>
BlankLine == <<NL>>
JunkLine == <<"x", NL>>

Lines == {SrcF, SrcG, TgtF, TgtG, HunkAdd, HunkDel, HunkMod, HunkNil,
          CtxLine, AddLine, DelLine, BlankLine, JunkLine}

----------------------------------------------------------------------------
(* What the iterator hands out: str objects and bytes objects.             *)

\* The octet of a character of the lines above (ASCII).
Ord(c) ==
    CASE c = TAB -> 9 [] c = NL -> 10 [] c = " " -> 32 [] c = "+" -> 43
      [] c = "," -> 44 [] c = "-" -> 45 [] c = "@" -> 64
      [] c = "a" -> 97 [] c = "c" -> 99 [] c = "f" -> 102 [] c = "g" -> 103
      [] c = "r" -> 114 [] c = "s" -> 115 [] c = "x" -> 120
      [] c \in Digits -> 48 + DigitVal(c)

Chars == {TAB, NL, " ", "+", ",", "-", "@", "a", "c", "f", "g", "r", "s", "x"}
             \cup Digits

Chr(b) == CHOOSE c \in Chars : Ord(c) = b

\* The bytes a file holds for the line text.
Octets(text) == [i \in 1..Len(text) |-> Ord(text[i])]

\* line.decode(encoding), for an ASCII compatible encoding such as UTF-8: the
\* text of the octets, or None where the call raises UnicodeDecodeError.  The
\* octets of the model are those of Chars and 255, which no UTF-8 text holds.
decode(octets) ==
    IF \E i \in 1..Len(octets) : octets[i] >= 128 THEN None
    ELSE Some([i \in 1..Len(octets) |-> Chr(octets[i])])

str(text) == [bytes |-> FALSE, data |-> text]

bytes(octets) == [bytes |-> TRUE, data |-> octets]

\* An added line whose text is not valid UTF-8.
BadBytes == <<43, 255, 10>>

ByteLines == {Octets(SrcF), Octets(TgtF), Octets(HunkAdd), Octets(AddLine),
              BadBytes}

----------------------------------------------------------------------------
(* Line, Hunk and PatchedFile.                                             *)

Line(value, line_type) ==
    [value |-> value, line_type |-> line_type,
     source_line_no |-> None, target_line_no |-> None]

is_added(l) == l.line_type = LINE_TYPE_ADDED

is_removed(l) == l.line_type = LINE_TYPE_REMOVED

is_context(l) == l.line_type = LINE_TYPE_CONTEXT

Hunk(g) ==
    [source_start |-> int(g.src_start),
     source_length |-> IF g.src_len = None THEN 1 ELSE int(g.src_len.val),
     target_start |-> int(g.tgt_start),
     target_length |-> IF g.tgt_len = None THEN 1 ELSE int(g.tgt_len.val),
     section_header |-> g.section_header,
     lines |-> <<>>]

IsSourceLine(l) == is_context(l) \/ is_removed(l)

IsTargetLine(l) == is_context(l) \/ is_added(l)

source_lines(h) == SelectSeq(h.lines, IsSourceLine)

target_lines(h) == SelectSeq(h.lines, IsTargetLine)

\* A validity test that compares the source side only.
is_valid_source_only(h) == Len(source_lines(h)) = h.source_length

is_valid(h) ==
    /\ Len(source_lines(h)) = h.source_length
    /\ Len(target_lines(h)) = h.target_length

\* A constructor that takes the two timestamps in the other order.
PatchedFile_swapped(source, target, source_timestamp, target_timestamp) ==
    [source_file |-> source, source_timestamp |-> target_timestamp,
     target_file |-> target, target_timestamp |-> source_timestamp,
     hunks |-> <<>>]

PatchedFile(source, target, source_timestamp, target_timestamp) ==
    [source_file |-> source, source_timestamp |-> source_timestamp,
     target_file |-> target, target_timestamp |-> target_timestamp,
     hunks |-> <<>>]

\* An addition test that accepts any file whose first hunk starts at 0,0.
is_added_file_first_hunk(f) ==
    /\ Len(f.hunks) >= 1
    /\ f.hunks[1].source_start = 0
    /\ f.hunks[1].source_length = 0

is_added_file(f) ==
    /\ Len(f.hunks) = 1
    /\ f.hunks[1].source_start = 0
    /\ f.hunks[1].source_length = 0

is_removed_file(f) ==
    /\ Len(f.hunks) = 1
    /\ f.hunks[1].target_start = 0
    /\ f.hunks[1].target_length = 0

is_modified_file(f) == ~(is_added_file(f) \/ is_removed_file(f))

added_files(ps) == SelectSeq(ps, is_added_file)

removed_files(ps) == SelectSeq(ps, is_removed_file)

modified_files(ps) == SelectSeq(ps, is_modified_file)

\* A numbering whose blank line branch leaves the source counter alone.
NumberLine_blank_target_only(m, sno, tno) ==
    LET l == Line(m.value, m.line_type)
    IN  CASE m.line_type = LINE_TYPE_ADDED ->
               [original_line |-> Some([l EXCEPT !.target_line_no = Some(tno)]),
                source_line_no |-> sno, target_line_no |-> tno + 1]
          [] m.line_type = LINE_TYPE_REMOVED ->
               [original_line |-> Some([l EXCEPT !.source_line_no = Some(sno)]),
                source_line_no |-> sno + 1, target_line_no |-> tno]
          [] m.line_type = LINE_TYPE_CONTEXT ->
               [original_line |-> Some([l EXCEPT !.target_line_no = Some(tno),
                                                 !.source_line_no = Some(sno)]),
                source_line_no |-> sno + 1, target_line_no |-> tno + 1]
          [] m.line_type = LINE_TYPE_EMPTY ->
               [original_line |-> Some([l EXCEPT !.line_type = LINE_TYPE_CONTEXT,
                                                 !.value = <<LINE_TYPE_EMPTY>>,
                                                 !.target_line_no = Some(tno),
                                                 !.source_line_no = Some(sno)]),
                source_line_no |-> sno, target_line_no |-> tno + 1]
          [] OTHER ->
               [original_line |-> None,
                source_line_no |-> sno, target_line_no |-> tno]

\* A numbering that has no branch for the blank line, which then falls into
\* the last branch and yields no Line.
NumberLine_blank_dropped(m, sno, tno) ==
    IF m.line_type = LINE_TYPE_EMPTY
    THEN [original_line |-> None, source_line_no |-> sno, target_line_no |-> tno]
    ELSE NumberLine_blank_target_only(m, sno, tno)

\* The body of the loop of _parse_hunk from the match on: the Line made of
\* the groups m, numbered from the running counters sno and tno.
NumberLine(m, sno, tno) ==
    LET l == Line(m.value, m.line_type)
    IN  CASE m.line_type = LINE_TYPE_ADDED ->
               [original_line |-> Some([l EXCEPT !.target_line_no = Some(tno)]),
                source_line_no |-> sno, target_line_no |-> tno + 1]
          [] m.line_type = LINE_TYPE_REMOVED ->
               [original_line |-> Some([l EXCEPT !.source_line_no = Some(sno)]),
                source_line_no |-> sno + 1, target_line_no |-> tno]
          [] m.line_type = LINE_TYPE_CONTEXT ->
               [original_line |-> Some([l EXCEPT !.target_line_no = Some(tno),
                                                 !.source_line_no = Some(sno)]),
                source_line_no |-> sno + 1, target_line_no |-> tno + 1]
          [] m.line_type = LINE_TYPE_EMPTY ->
               [original_line |-> Some([l EXCEPT !.line_type = LINE_TYPE_CONTEXT,
                                                 !.value = <<LINE_TYPE_EMPTY>>,
                                                 !.target_line_no = Some(tno),
                                                 !.source_line_no = Some(sno)]),
                source_line_no |-> sno + 1, target_line_no |-> tno + 1]
          [] OTHER ->
               [original_line |-> None,
                source_line_no |-> sno, target_line_no |-> tno]

\* if original_line: hunk.append(original_line)
AppendLine(h, original_line) ==
    IF original_line = None THEN h
    ELSE [h EXCEPT !.lines = Append(@, original_line.val)]

\* An append that always lands in the first file of the patch set.
AppendHunk_first_file(ps, cf, h) == [ps EXCEPT ![1].hunks = Append(@, h)]

\* self.append(hunk), on the file at index cf of the patch set.
AppendHunk(ps, cf, h) == [ps EXCEPT ![cf].hunks = Append(@, h)]

\* The two tests of the scanner on its current file, each preceded by
\* variants that fire always or never.
TargetWithoutSource_always(cf) == cf = cf

TargetWithoutSource_never(cf) == cf # cf

TargetWithoutSource(cf) == cf # 0

UnexpectedHunk_never(cf) == cf # cf

UnexpectedHunk(cf) == cf = 0

UnidiffParseError(message, line) ==
    [kind |-> "UnidiffParseError", message |-> message, line |-> line]

\* Reading the local source_file before any source header has set it.
UnboundLocalError(line) ==
    [kind |-> "UnboundLocalError", message |-> "source_file", line |-> line]

\* The exceptions of the pull and of the decode step.
UnicodeDecodeError ==
    [kind |-> "UnicodeDecodeError", message |-> "invalid start byte",
     line |-> <<>>]

AttributeError ==
    [kind |-> "AttributeError", message |-> "decode", line |-> <<>>]

TypeError ==
    [kind |-> "TypeError", message |-> "string pattern on bytes",
     line |-> <<>>]

----------------------------------------------------------------------------
(* The parse.                                                              *)

VARIABLES
    encoding,         \* the encoding argument of PatchSet, or None
    raw,              \* the items next(diff) handed out so far, in order
    stops,            \* the length of raw at each StopIteration of next(diff)
    diff,             \* the lines that reached the first test of a loop
    by,               \* for each of these lines, the loop that pulled it
    exhausted,        \* the last call of next(diff) raised StopIteration
    pc,               \* "scan", "hunk", "done" or "error"
    patchset,         \* the PatchSet under construction
    current_file,     \* index in patchset of the current file, 0 for None
    source_file,      \* local of _parse, None while unbound
    source_timestamp, \* local of _parse (a present value wraps the group)
    hunk,             \* the hunk of the running _parse_hunk, or None
    source_line_no,   \* its running source line counter
    target_line_no,   \* its running target line counter
    truncated,        \* <<file, hunk>> of the hunks stored at a StopIteration
    error,            \* the exception that ended the parse, or None
    result            \* the PatchSet the constructor returned, or None

vars == <<encoding, raw, stops, diff, by, exhausted, pc, patchset, current_file, source_file,
          source_timestamp, hunk, source_line_no, target_line_no, truncated,
          error, result>>

scannerVars == <<patchset, current_file, source_file, source_timestamp>>

hunkVars == <<hunk, source_line_no, target_line_no>>

Init ==
    /\ encoding \in {None, Some("utf-8")}
    /\ raw = <<>>
    /\ stops = <<>>
    /\ diff = <<>>
    /\ by = <<>>
    /\ exhausted = FALSE
    /\ pc = "scan"
    /\ patchset = <<>>
    /\ current_file = 0
    /\ source_file = None
    /\ source_timestamp = None
    /\ hunk = None
    /\ source_line_no = 0
    /\ target_line_no = 0
    /\ truncated = {}
    /\ error = None
    /\ result = None

\* The items that reach the first test of a loop as line: a str when no
\* encoding is given, bytes that decode to line when one is.
Handed(line) ==
    IF encoding = None THEN {str(line)}
    ELSE {bytes(o) : o \in {b \in ByteLines : decode(b) = Some(line)}}

\* A next(diff) that hands out the line without advancing the iterator.
Pull_no_advance(line, who) ==
    /\ Len(raw) < MaxLines
    /\ Handed(line) # {}
    /\ exhausted' = FALSE
    /\ UNCHANGED <<raw, diff, by, stops, encoding>>

\* next(diff) yields an item to the loop who, and the decode step makes line
\* of it.
Pull(line, who) ==
    /\ Len(raw) < MaxLines
    /\ \E item \in Handed(line) : raw' = Append(raw, item)
    /\ diff' = Append(diff, line)
    /\ by' = Append(by, who)
    /\ exhausted' = FALSE
    /\ UNCHANGED <<stops, encoding>>

\* An error that is recorded while the loop goes on.
Raise_and_continue(e) ==
    /\ error' = e
    /\ UNCHANGED <<pc, result, truncated>>

Raise(e) ==
    /\ pc' = "error"
    /\ error' = e
    /\ UNCHANGED <<result, truncated>>

\* A source file header that leaves the current file in place.
ReadSourceHeader_keeps_file(line) ==
    /\ pc = "scan"
    /\ Pull(line, "scan")
    /\ RE_SOURCE_FILENAME(line) # None
    /\ source_file' = Some(RE_SOURCE_FILENAME(line).val.filename)
    /\ source_timestamp' = Some(RE_SOURCE_FILENAME(line).val.timestamp)
    /\ UNCHANGED <<pc, patchset, current_file, hunkVars, truncated, error,
                   result>>

\* _parse: a source file header.
ReadSourceHeader(line) ==
    /\ pc = "scan"
    /\ Pull(line, "scan")
    /\ RE_SOURCE_FILENAME(line) # None
    /\ source_file' = Some(RE_SOURCE_FILENAME(line).val.filename)
    /\ source_timestamp' = Some(RE_SOURCE_FILENAME(line).val.timestamp)
    /\ current_file' = 0
    /\ UNCHANGED <<pc, patchset, hunkVars, truncated, error, result>>

\* _parse: a target file header.
ReadTargetHeader(line) ==
    /\ pc = "scan"
    /\ Pull(line, "scan")
    /\ RE_SOURCE_FILENAME(line) = None
    /\ RE_TARGET_FILENAME(line) # None
    /\ IF TargetWithoutSource(current_file)
       THEN /\ Raise(UnidiffParseError("Target without source", line))
            /\ UNCHANGED scannerVars
       ELSE IF source_file = None
       THEN /\ Raise(UnboundLocalError(line))
            /\ UNCHANGED scannerVars
       ELSE /\ patchset' = Append(patchset,
                   PatchedFile(source_file.val,
                               RE_TARGET_FILENAME(line).val.filename,
                               source_timestamp.val,
                               RE_TARGET_FILENAME(line).val.timestamp))
            /\ current_file' = Len(patchset) + 1
            /\ UNCHANGED <<pc, source_file, source_timestamp, truncated, error,
                           result>>
    /\ UNCHANGED hunkVars

\* _parse: a hunk header; on success control enters _parse_hunk.
ReadHunkHeader(line) ==
    /\ pc = "scan"
    /\ Pull(line, "scan")
    /\ RE_SOURCE_FILENAME(line) = None
    /\ RE_TARGET_FILENAME(line) = None
    /\ RE_HUNK_HEADER(line) # None
    /\ IF UnexpectedHunk(current_file)
       THEN /\ Raise(UnidiffParseError("Unexpected hunk found", line))
            /\ UNCHANGED hunkVars
       ELSE /\ hunk' = Some(Hunk(RE_HUNK_HEADER(line).val))
            /\ source_line_no' = Hunk(RE_HUNK_HEADER(line).val).source_start
            /\ target_line_no' = Hunk(RE_HUNK_HEADER(line).val).target_start
            /\ pc' = "hunk"
            /\ UNCHANGED <<truncated, error, result>>
    /\ UNCHANGED scannerVars

\* A scanner that closes the current file on a line it does not know.
IgnoreLine_closes_file(line) ==
    /\ pc = "scan"
    /\ Pull(line, "scan")
    /\ RE_SOURCE_FILENAME(line) = None
    /\ RE_TARGET_FILENAME(line) = None
    /\ RE_HUNK_HEADER(line) = None
    /\ current_file' = 0
    /\ UNCHANGED <<pc, patchset, source_file, source_timestamp, hunkVars,
                   truncated, error, result>>

\* _parse: any other line.
IgnoreLine(line) ==
    /\ pc = "scan"
    /\ Pull(line, "scan")
    /\ RE_SOURCE_FILENAME(line) = None
    /\ RE_TARGET_FILENAME(line) = None
    /\ RE_HUNK_HEADER(line) = None
    /\ UNCHANGED <<pc, scannerVars, hunkVars, truncated, error, result>>

\* _parse: next(diff) raises StopIteration, the constructor returns.
ScanExhausted ==
    /\ pc = "scan"
    /\ exhausted' = TRUE
    /\ stops' = Append(stops, Len(raw))
    /\ pc' = "done"
    /\ result' = Some(patchset)
    /\ UNCHANGED <<encoding, raw, diff, by, scannerVars, hunkVars, truncated,
                   error>>

\* Either loop: next(diff) raises an error of its own, as the file object of
\* from_filename does on bytes that are not valid in its encoding.
IteratorRaises ==
    /\ pc \in {"scan", "hunk"}
    /\ Raise(UnicodeDecodeError)
    /\ exhausted' = FALSE
    /\ UNCHANGED <<encoding, raw, stops, diff, by, scannerVars, hunkVars>>

\* Either loop: line.decode(encoding) raises, on a str, which has no decode,
\* or on bytes that are not valid in the encoding.
DecodeFails(item) ==
    /\ pc \in {"scan", "hunk"}
    /\ encoding # None
    /\ Len(raw) < MaxLines
    /\ raw' = Append(raw, item)
    /\ exhausted' = FALSE
    /\ IF item.bytes
       THEN /\ decode(item.data) = None
            /\ Raise(UnicodeDecodeError)
       ELSE Raise(AttributeError)
    /\ UNCHANGED <<encoding, stops, diff, by, scannerVars, hunkVars>>

\* Either loop: without an encoding bytes reach the first match of the loop,
\* whose pattern is a str pattern.
MatchFails(item) ==
    /\ pc \in {"scan", "hunk"}
    /\ encoding = None
    /\ item.bytes
    /\ Len(raw) < MaxLines
    /\ raw' = Append(raw, item)
    /\ exhausted' = FALSE
    /\ Raise(TypeError)
    /\ UNCHANGED <<encoding, stops, diff, by, scannerVars, hunkVars>>

\* A loop that tests the validity of the hunk before it appends the line.
HunkBodyLine_test_before(line) ==
    /\ pc = "hunk"
    /\ Pull(line, "hunk")
    /\ RE_HUNK_BODY_LINE(line) # None
    /\ LET n == NumberLine(RE_HUNK_BODY_LINE(line).val,
                           source_line_no, target_line_no)
           h == AppendLine(hunk.val, n.original_line)
       IN  IF is_valid(hunk.val)
           THEN /\ patchset' = AppendHunk(patchset, current_file, h)
                /\ hunk' = None
                /\ source_line_no' = 0
                /\ target_line_no' = 0
                /\ pc' = "scan"
           ELSE /\ hunk' = Some(h)
                /\ source_line_no' = n.source_line_no
                /\ target_line_no' = n.target_line_no
                /\ UNCHANGED <<pc, patchset>>
    /\ UNCHANGED <<current_file, source_file, source_timestamp, truncated,
                   error, result>>

\* A loop that hands the line that completed the hunk on to the scanner,
\* which takes a source file header in it for one.
HunkBodyLine_rescans(line) ==
    /\ pc = "hunk"
    /\ Pull(line, "hunk")
    /\ RE_HUNK_BODY_LINE(line) # None
    /\ LET n == NumberLine(RE_HUNK_BODY_LINE(line).val,
                           source_line_no, target_line_no)
           h == AppendLine(hunk.val, n.original_line)
       IN  IF is_valid(h)
           THEN /\ patchset' = AppendHunk(patchset, current_file, h)
                /\ hunk' = None
                /\ source_line_no' = 0
                /\ target_line_no' = 0
                /\ pc' = "scan"
                /\ IF RE_SOURCE_FILENAME(line) # None
                   THEN /\ source_file' = Some(RE_SOURCE_FILENAME(line).val.filename)
                        /\ source_timestamp' =
                               Some(RE_SOURCE_FILENAME(line).val.timestamp)
                        /\ current_file' = 0
                   ELSE UNCHANGED <<current_file, source_file, source_timestamp>>
           ELSE /\ hunk' = Some(h)
                /\ source_line_no' = n.source_line_no
                /\ target_line_no' = n.target_line_no
                /\ UNCHANGED <<pc, patchset, current_file, source_file,
                               source_timestamp>>
    /\ UNCHANGED <<truncated, error, result>>

\* _parse_hunk: one line of the hunk body.
HunkBodyLine(line) ==
    /\ pc = "hunk"
    /\ Pull(line, "hunk")
    /\ RE_HUNK_BODY_LINE(line) # None
    /\ LET n == NumberLine(RE_HUNK_BODY_LINE(line).val,
                           source_line_no, target_line_no)
           h == AppendLine(hunk.val, n.original_line)
       IN  IF is_valid(h)
           THEN /\ patchset' = AppendHunk(patchset, current_file, h)
                /\ hunk' = None
                /\ source_line_no' = 0
                /\ target_line_no' = 0
                /\ pc' = "scan"
           ELSE /\ hunk' = Some(h)
                /\ source_line_no' = n.source_line_no
                /\ target_line_no' = n.target_line_no
                /\ UNCHANGED <<pc, patchset>>
    /\ UNCHANGED <<current_file, source_file, source_timestamp, truncated,
                   error, result>>

\* A failure that first stores the hunk under assembly in its file.
HunkBadLine_keeps_hunk(line) ==
    /\ pc = "hunk"
    /\ Pull(line, "hunk")
    /\ RE_HUNK_BODY_LINE(line) = None
    /\ Raise(UnidiffParseError("Hunk diff line expected", line))
    /\ patchset' = AppendHunk(patchset, current_file, hunk.val)
    /\ UNCHANGED <<current_file, source_file, source_timestamp, hunkVars>>

\* _parse_hunk: a line that is no hunk body line.
HunkBadLine(line) ==
    /\ pc = "hunk"
    /\ Pull(line, "hunk")
    /\ RE_HUNK_BODY_LINE(line) = None
    /\ Raise(UnidiffParseError("Hunk diff line expected", line))
    /\ UNCHANGED <<scannerVars, hunkVars>>

\* An end of input inside a hunk that is taken for an error.
HunkExhausted_raises ==
    /\ pc = "hunk"
    /\ exhausted' = TRUE
    /\ stops' = Append(stops, Len(raw))
    /\ Raise(UnidiffParseError("Hunk is shorter than expected", <<>>))
    /\ UNCHANGED <<encoding, raw, diff, by, scannerVars, hunkVars>>

\* _parse_hunk: next(diff) raises StopIteration, the hunk is kept as it is
\* and _parse calls next(diff) again.
HunkExhausted ==
    /\ pc = "hunk"
    /\ exhausted' = TRUE
    /\ stops' = Append(stops, Len(raw))
    /\ patchset' = AppendHunk(patchset, current_file, hunk.val)
    /\ hunk' = None
    /\ source_line_no' = 0
    /\ target_line_no' = 0
    /\ pc' = "scan"
    /\ truncated' = truncated \cup
           {<<current_file, Len(patchset[current_file].hunks) + 1>>}
    /\ UNCHANGED <<encoding, raw, diff, by, current_file, source_file,
                   source_timestamp, error, result>>

Next ==
    \/ \E line \in Lines : ReadSourceHeader(line)
    \/ \E line \in Lines : ReadTargetHeader(line)
    \/ \E line \in Lines : ReadHunkHeader(line)
    \/ \E line \in Lines : IgnoreLine(line)
    \/ ScanExhausted
    \/ \E line \in Lines : HunkBodyLine(line)
    \/ \E line \in Lines : HunkBadLine(line)
    \/ HunkExhausted
    \/ IteratorRaises
    \/ \E line \in Lines : DecodeFails(str(line))
    \/ \E b \in ByteLines : DecodeFails(bytes(b))
    \/ \E b \in ByteLines : MatchFails(bytes(b))

Spec == Init /\ [][Next]_vars

FairSpec == Spec /\ WF_vars(Next)

TypeOK ==
    /\ pc \in {"scan", "hunk", "done", "error"}
    /\ Len(diff) = Len(by)
    /\ Len(raw) \in {Len(diff), Len(diff) + 1}
    /\ Len(raw) <= MaxLines
    /\ exhausted = (/\ stops # <<>>
                    /\ stops[Len(stops)] = Len(raw)
                    /\ ~(pc = "error" /\ Len(raw) = Len(diff)
                             /\ error = UnicodeDecodeError))
    /\ current_file \in 0..Len(patchset)

----------------------------------------------------------------------------
(* Vocabulary of the properties.                                           *)

\* The hunks of the patch set and the hunk under assembly.
AllHunks ==
    {patchset[i].hunks[j] : <<i, j>> \in
        {p \in (1..Len(patchset)) \X (1..MaxLines) : p[2] <= Len(patchset[p[1]].hunks)}}
    \cup (IF hunk = None THEN {} ELSE {hunk.val})

\* Lines of h carrying a source (target) line number.
SourceCount(h) ==
    Cardinality({i \in 1..Len(h.lines) : h.lines[i].source_line_no # None})

TargetCount(h) ==
    Cardinality({i \in 1..Len(h.lines) : h.lines[i].target_line_no # None})

CountsMet(h) ==
    /\ SourceCount(h) = h.source_length
    /\ TargetCount(h) = h.target_length

OnSourceSide(l) == l.line_type \in {" ", "-"}

OnTargetSide(l) == l.line_type \in {" ", "+"}

\* Rank of line i among the lines of h on one side.
SourceRank(h, i) == Cardinality({k \in 1..i : OnSourceSide(h.lines[k])})

TargetRank(h, i) == Cardinality({k \in 1..i : OnTargetSide(h.lines[k])})

\* The step pulls one line, which is then the last of diff'.
PullsOne ==
    /\ Len(diff') = Len(diff) + 1
    /\ SubSeq(diff', 1, Len(diff)) = diff

\* The step takes one item from the iterator, which is then the last of raw'.
PullsItem ==
    /\ Len(raw') = Len(raw) + 1
    /\ SubSeq(raw', 1, Len(raw)) = raw

\* The item cannot reach the first test of a loop as a line of text.
Unreadable(item) ==
    IF encoding = None THEN item.bytes
    ELSE ~item.bytes \/ decode(item.data) = None

\* The parse failed on the last line of diff.
LineFailed ==
    /\ pc = "error"
    /\ error.kind \in {"UnidiffParseError", "UnboundLocalError"}

\* The parse failed before a line reached the first test of a loop: the
\* iterator raised, or the item it handed out is unreadable.
PullFailed ==
    /\ pc = "error"
    /\ \/ Len(raw) = Len(diff) /\ error = UnicodeDecodeError
       \/ /\ Len(raw) = Len(diff) + 1
          /\ Unreadable(raw[Len(raw)])
          /\ error \in {UnicodeDecodeError, AttributeError, TypeError}

Unrecognized(l) == l # <<>> /\ l # <<"\n">> /\ l[1] \notin {"+", "-", " "}

\* Headers the scanner (not the hunk assembler) has read, by position.
IsScanSource(i) == by[i] = "scan" /\ LitAt(diff[i], 1, <<"-", "-", "-", " ">>)

IsScanTarget(i) == by[i] = "scan" /\ LitAt(diff[i], 1, <<"+", "+", "+", " ">>)

IsScanHunk(i) == by[i] = "scan" /\ LitAt(diff[i], 1, <<"@", "@", " ">>)

TargetsRead == {i \in 1..Len(diff) : IsScanTarget(i)}

NthTarget(k) ==
    CHOOSE i \in TargetsRead : Cardinality({j \in TargetsRead : j <= i}) = k

SourcesBefore(i) == {j \in 1..(i - 1) : IsScanSource(j)}

LastSourceBefore(i) ==
    CHOOSE j \in SourcesBefore(i) : \A m \in SourcesBefore(i) : m <= j

\* Path and timestamp written on each file header line of the input.
Written(line) ==
    CASE line = SrcF -> [filename |-> <<"f">>, timestamp |-> None]
      [] line = SrcG -> [filename |-> <<"g">>, timestamp |-> Some(<<"1">>)]
      [] line = TgtF -> [filename |-> <<"f">>, timestamp |-> None]
      [] line = TgtG -> [filename |-> <<"g">>, timestamp |-> Some(<<"2">>)]

\* Source start, source length, target start, target length each hunk
\* header line of the input declares.
Declared(line) ==
    CASE line = HunkAdd -> <<0, 0, 1, 1>>
      [] line = HunkDel -> <<1, 2, 0, 0>>
      [] line = HunkMod -> <<12, 1, 2, 2>>
      [] line = HunkNil -> <<0, 0, 0, 0>>

\* Positions of the hunk headers the scanner read for the k-th file.
HunkHeadersOf(k) ==
    {i \in 1..Len(diff) :
        /\ IsScanHunk(i)
        /\ i > NthTarget(k)
        /\ \A j \in (NthTarget(k) + 1)..(i - 1) : ~IsScanSource(j)}

----------------------------------------------------------------------------
(* C1 *)

\* C1 as stated: whenever the parse ends without an error, every hunk of
\* every file of the returned patch set has as many source side lines as its
\* declared source length and as many target side lines as its declared
\* target length.
C1_AllHunksValid ==
    pc = "done" =>
        \A i \in 1..Len(result.val) : \A j \in 1..Len(result.val[i].hunks) :
            CountsMet(result.val[i].hunks[j])

\* C1, amended: whenever the parse ends without an error, every hunk of the
\* returned patch set meets its declared counts, except the hunks that were
\* stored because the iterator reported the end of the input while they were
\* under assembly; when the iterator yields nothing after its end, only the
\* last hunk of the last file is such a hunk.
C1_ValidUnlessTruncated ==
    pc = "done" =>
        /\ \A i \in 1..Len(result.val) : \A j \in 1..Len(result.val[i].hunks) :
               \/ CountsMet(result.val[i].hunks[j])
               \/ <<i, j>> \in truncated
        /\ (\A k \in 1..Len(stops) : stops[k] = Len(raw)) =>
               \A p \in truncated :
                   /\ p[1] = Len(result.val)
                   /\ p[2] = Len(result.val[p[1]].hunks)

C1_Witness ==
    /\ pc = "done"
    /\ truncated = {}
    /\ \E i \in 1..Len(result.val) : \E j \in 1..Len(result.val[i].hunks) :
           /\ Len(result.val[i].hunks[j].lines) >= 2
           /\ CountsMet(result.val[i].hunks[j])

(* C2 *)

\* C2: in every hunk, finished or under assembly, the i-th source side line
\* is numbered source_start + i - 1 and the j-th target side line
\* target_start + j - 1; added lines have no source line number and removed
\* lines no target line number.
C2_LineNumbers ==
    \A h \in AllHunks : \A i \in 1..Len(h.lines) :
        LET l == h.lines[i]
        IN  /\ OnSourceSide(l) =>
                l.source_line_no = Some(h.source_start + SourceRank(h, i) - 1)
            /\ OnTargetSide(l) =>
                l.target_line_no = Some(h.target_start + TargetRank(h, i) - 1)
            /\ l.line_type = "+" => l.source_line_no = None
            /\ l.line_type = "-" => l.target_line_no = None
            /\ l.line_type \in {"+", "-", " "}

C2_Witness ==
    \E h \in AllHunks :
        /\ Len(h.lines) >= 2
        /\ SourceRank(h, Len(h.lines)) >= 2
        /\ TargetRank(h, Len(h.lines)) >= 1
        /\ \E i \in 1..Len(h.lines) : h.lines[i].value = <<"\n">>

(* C3 *)

\* C3: when the scanner reads a target file header before it has read any
\* source file header, the parse fails with the diff parse error "target
\* without source".
C3_TargetBeforeSourceIsParseError ==
    (/\ Len(diff) >= 1
     /\ IsScanTarget(Len(diff))
     /\ SourcesBefore(Len(diff)) = {})
    => (/\ pc = "error"
        /\ error.kind = "UnidiffParseError"
        /\ error.message = "Target without source")

(* C4 *)

\* C4: a target file header read by the scanner while there is a current
\* file fails the parse with the diff parse error "target without source"
\* carrying that line, and no file is added to the patch set.
C4_TargetInFile ==
    [][(/\ pc = "scan"
        /\ current_file # 0
        /\ PullsOne
        /\ LitAt(diff'[Len(diff')], 1, <<"+", "+", "+", " ">>))
       => (/\ pc' = "error"
           /\ error' = [kind |-> "UnidiffParseError",
                        message |-> "Target without source",
                        line |-> diff'[Len(diff')]]
           /\ patchset' = patchset)]_vars

C4_Witness ==
    /\ pc = "error"
    /\ error.message = "Target without source"
    /\ Len(patchset) = 1
    /\ Len(patchset[1].hunks) >= 1

(* C5 *)

\* C5: a hunk header read by the scanner while there is no current file
\* (before any file header, or after a source header with no target header)
\* fails the parse with the diff parse error "unexpected hunk" carrying that
\* line, and no hunk assembly starts.
C5_HunkOutsideFile ==
    [][(/\ pc = "scan"
        /\ current_file = 0
        /\ PullsOne
        /\ LitAt(diff'[Len(diff')], 1, <<"@", "@", " ">>))
       => (/\ pc' = "error"
           /\ error' = [kind |-> "UnidiffParseError",
                        message |-> "Unexpected hunk found",
                        line |-> diff'[Len(diff')]]
           /\ hunk' = None
           /\ patchset' = patchset)]_vars

C5_Witness ==
    /\ pc = "error"
    /\ error.message = "Unexpected hunk found"
    /\ source_file # None
    /\ Len(patchset) >= 1

(* C6 *)

\* C6: while a hunk is under assembly, a pulled line whose marker is none
\* of "+", "-", " " and which is not blank fails the parse with a diff parse
\* error carrying that line, and the hunk under assembly is not stored in
\* its file.
C6_BadBodyLine ==
    [][(/\ pc = "hunk"
        /\ PullsOne
        /\ Unrecognized(diff'[Len(diff')]))
       => (/\ pc' = "error"
           /\ error' = [kind |-> "UnidiffParseError",
                        message |-> "Hunk diff line expected",
                        line |-> diff'[Len(diff')]]
           /\ patchset' = patchset)]_vars

C6_Witness ==
    /\ pc = "error"
    /\ error.message = "Hunk diff line expected"
    /\ hunk # None
    /\ Len(hunk.val.lines) >= 1
    /\ ~CountsMet(hunk.val)
    /\ patchset[current_file].hunks = <<>>

(* C7 *)

\* C7: an error ends the parse: from the moment an error is raised the
\* parse is in its error state, no patch set has been returned, and nothing
\* changes any more (no line is pulled, no file or hunk is added).
C7_ErrorsAreFatal ==
    /\ [](error # None => (pc = "error" /\ result = None))
    /\ [][error = None]_vars

C7_Witness ==
    /\ pc = "error"
    /\ result = None
    /\ Len(patchset) >= 1
    /\ Len(diff) < MaxLines

(* C8 *)

\* C8: after a successful parse the patch set holds one file per target
\* header the scanner read, in input order; each file carries the path and
\* timestamp of its target header and those of the last source header the
\* scanner read before it, and no source header serves two files.
C8_OneFilePerTarget ==
    pc = "done" =>
        /\ Len(result.val) = Cardinality(TargetsRead)
        /\ \A k \in 1..Len(result.val) :
            LET t == NthTarget(k)
                f == result.val[k]
            IN  /\ SourcesBefore(t) # {}
                /\ f.target_file = Written(diff[t]).filename
                /\ f.target_timestamp = Written(diff[t]).timestamp
                /\ f.source_file = Written(diff[LastSourceBefore(t)]).filename
                /\ f.source_timestamp = Written(diff[LastSourceBefore(t)]).timestamp
                /\ \A k2 \in 1..Len(result.val) :
                       k2 # k => LastSourceBefore(NthTarget(k2)) # LastSourceBefore(t)

C8_Witness ==
    /\ pc = "done"
    /\ Len(result.val) = 2
    /\ result.val[1].source_file # result.val[2].source_file
    /\ Cardinality({i \in 1..Len(diff) : IsScanSource(i)}) >= 3

(* C9 *)

\* C9: the parse terminates, by exhaustion of the input (returning the
\* patch set accumulated so far) or by an error, and every step takes
\* exactly one item from the shared iterator, unless the iterator has none
\* to give: it reports its end, or the parse ends with the iterator's error.
C9_Terminates ==
    /\ <>(pc \in {"done", "error"})
    /\ [](pc = "done" => (exhausted /\ result = Some(patchset)))
    /\ [][\/ PullsItem
          \/ /\ raw' = raw
             /\ \/ exhausted' /\ stops' = Append(stops, Len(raw))
                \/ pc' = "error" /\ error' = UnicodeDecodeError]_vars

C9_Witness ==
    /\ pc = "done"
    /\ Len(diff) >= 5
    /\ \E i \in 1..Len(by) : by[i] = "hunk"

(* C10 *)

\* C10: in a parsed patch set a file is an addition iff the scanner read
\* exactly one hunk header for it and that header declares source start 0
\* and source length 0, a removal iff it read exactly one and that header
\* declares target start 0 and target length 0, and a modification iff it
\* is neither; the filtered views hold exactly these files.
C10_Classification ==
    pc = "done" =>
        LET ps == result.val
            Adds == {k \in 1..Len(ps) :
                        /\ Cardinality(HunkHeadersOf(k)) = 1
                        /\ \A i \in HunkHeadersOf(k) :
                               Declared(diff[i])[1] = 0 /\ Declared(diff[i])[2] = 0}
            Dels == {k \in 1..Len(ps) :
                        /\ Cardinality(HunkHeadersOf(k)) = 1
                        /\ \A i \in HunkHeadersOf(k) :
                               Declared(diff[i])[3] = 0 /\ Declared(diff[i])[4] = 0}
        IN  /\ \A k \in 1..Len(ps) :
                /\ is_added_file(ps[k]) <=> k \in Adds
                /\ is_removed_file(ps[k]) <=> k \in Dels
                /\ is_modified_file(ps[k]) <=> (k \notin Adds /\ k \notin Dels)
            /\ Len(added_files(ps)) = Cardinality(Adds)
            /\ Len(removed_files(ps)) = Cardinality(Dels)
            /\ Len(modified_files(ps)) = Len(ps) - Cardinality(Adds \cup Dels)

C10_Witness ==
    /\ pc = "done"
    /\ Len(result.val) = 1
    /\ is_added_file(result.val[1])
    /\ ~is_removed_file(result.val[1])
    /\ Len(result.val[1].hunks[1].lines) >= 1

(* C11 *)

\* The first n lines of hunk h, under its header.
Prefix(h, n) == [h EXCEPT !.lines = SubSeq(h.lines, 1, n)]

\* C11: the hunk assembler stops at the first line after which the counts
\* of the hunk equal its declared lengths: a stored hunk that meets its
\* counts and holds lines met them at no earlier line, a hunk still under
\* assembly that holds lines does not meet them, and the step that appends
\* the line meeting them stores the hunk and leaves the assembler.
C11_StopsWhenValid ==
    /\ [](\A h \in AllHunks : \A n \in 1..(Len(h.lines) - 1) :
              CountsMet(h) => ~CountsMet(Prefix(h, n)))
    /\ [](pc = "hunk" /\ Len(hunk.val.lines) >= 1 => ~CountsMet(hunk.val))
    /\ [][(/\ pc = "hunk"
           /\ PullsOne
           /\ pc' = "scan")
          => (/\ hunk' = None
              /\ Len(patchset'[current_file].hunks)
                     = Len(patchset[current_file].hunks) + 1
              /\ CountsMet(patchset'[current_file].hunks[
                     Len(patchset'[current_file].hunks)]))]_vars

C11_Witness ==
    /\ pc = "scan"
    /\ ~exhausted
    /\ Len(diff) >= 5
    /\ by[Len(by)] = "hunk"
    /\ \E h \in AllHunks : Len(h.lines) >= 2 /\ CountsMet(h)

(* C12 *)

\* The lines of a sequence of hunks, and of a sequence of files, in order.
RECURSIVE FlatHunks(_)
FlatHunks(hs) ==
    IF hs = <<>> THEN <<>> ELSE hs[1].lines \o FlatHunks(Tail(hs))

RECURSIVE FlatFiles(_)
FlatFiles(fs) ==
    IF fs = <<>> THEN <<>> ELSE FlatHunks(fs[1].hunks) \o FlatFiles(Tail(fs))

\* Every Line held by a hunk, stored or under assembly, in order.
HeldLines ==
    FlatFiles(patchset) \o (IF hunk = None THEN <<>> ELSE hunk.val.lines)

\* Positions of the lines the hunk assembler pulled.
HunkPulled == {i \in 1..Len(diff) : by[i] = "hunk"}

NthHunkPulled(k) ==
    CHOOSE i \in HunkPulled : Cardinality({j \in HunkPulled : j <= i}) = k

\* The Line l is what the input line text gives.
LineOf(l, text) ==
    IF text = <<"\n">> THEN l.line_type = " " /\ l.value = <<"\n">>
    ELSE l.line_type = text[1] /\ l.value = Tail(text)

\* C12: the scanner and the hunk assembler read from one iterator: each
\* item the iterator hands out is pulled once and reaches, as the line it
\* reads as, exactly one of them (unless it is unreadable, which fails the
\* parse); the lines the assembler pulled
\* are, in input order, the lines the hunks hold (and the line that failed
\* the parse, if the assembler pulled it); a step of the assembler leaves
\* the scanner's source header, current file and list of files alone, even
\* when its line starts like a file header; the files come from the target
\* headers the scanner itself read.
C12_SharedCursor ==
    /\ [](/\ Len(by) = Len(diff)
          /\ Len(raw) \in {Len(diff), Len(diff) + 1}
          /\ Len(raw) # Len(diff) => PullFailed
          /\ \A i \in 1..Len(diff) : raw[i] \in Handed(diff[i])
          /\ \A i \in 1..Len(by) : by[i] \in {"scan", "hunk"}
          /\ Cardinality(HunkPulled) = Len(HeldLines)
                 + (IF LineFailed /\ by[Len(by)] = "hunk" THEN 1 ELSE 0)
          /\ \A k \in 1..Len(HeldLines) :
                 LineOf(HeldLines[k], diff[NthHunkPulled(k)])
          /\ Len(patchset) = Cardinality(TargetsRead)
                 - (IF LineFailed /\ IsScanTarget(Len(diff)) THEN 1 ELSE 0))
    /\ [][pc = "hunk" =>
              /\ UNCHANGED <<current_file, source_file, source_timestamp>>
              /\ Len(patchset') = Len(patchset)]_vars
    /\ [][PullsOne => by' = Append(by, pc)]_vars

C12_Witness ==
    /\ pc = "scan"
    /\ Len(patchset) = 1
    /\ current_file = 1
    /\ \E i \in 1..(Len(diff) - 1) :
           /\ by[i] = "hunk"
           /\ diff[i] \in {SrcF, SrcG, TgtF, TgtG}
           /\ by[i + 1] = "scan"

(* C13 *)

\* C13: a source file header read by the scanner raises no error, whatever
\* the state of the scanner; after it the scanner goes on, remembers the
\* path and timestamp of this header in place of any earlier ones, has no
\* current file, and the files of the patch set are as before.
C13_SourceHeaderAnywhere ==
    [][(/\ pc = "scan"
        /\ PullsOne
        /\ LitAt(diff'[Len(diff')], 1, <<"-", "-", "-", " ">>))
       => (/\ pc' = "scan"
           /\ error' = None
           /\ current_file' = 0
           /\ source_file' = Some(Written(diff'[Len(diff')]).filename)
           /\ source_timestamp' = Some(Written(diff'[Len(diff')]).timestamp)
           /\ patchset' = patchset)]_vars

C13_Witness ==
    /\ pc = "scan"
    /\ Len(diff) >= 5
    /\ IsScanSource(Len(diff))
    /\ current_file = 0
    /\ Len(patchset) = 1
    /\ Len(patchset[1].hunks) = 1
    /\ source_file # Some(patchset[1].source_file)

(* C14 *)

NthHeaderOf(k, j) ==
    CHOOSE i \in HunkHeadersOf(k) :
        Cardinality({m \in HunkHeadersOf(k) : m <= i}) = j

\* The hunk h carries the numbers the header line text declares.
Declares(h, text) ==
    <<h.source_start, h.source_length, h.target_start, h.target_length>>
        = Declared(text)

\* C14: while no error is raised, each file of the patch set holds one hunk
\* per hunk header the scanner read after the target header that created
\* the file (the hunk of the last header is still under assembly while the
\* assembler runs), in input order and with the numbers of its header; when
\* the assembler returns the scanner still has its current file, the last
\* of the patch set; no step changes a file other than the last one, and
\* the hunks of the last one only grow at the end.
C14_HunksGoToCurrentFile ==
    /\ [](pc # "error" =>
            \A k \in 1..Len(patchset) :
                LET pending == IF pc = "hunk" /\ k = Len(patchset) THEN 1 ELSE 0
                    n == Cardinality(HunkHeadersOf(k))
                IN  /\ Len(patchset[k].hunks) = n - pending
                    /\ \A j \in 1..Len(patchset[k].hunks) :
                           Declares(patchset[k].hunks[j], diff[NthHeaderOf(k, j)])
                    /\ pending = 1 => Declares(hunk.val, diff[NthHeaderOf(k, n)]))
    /\ [][/\ Len(patchset') >= Len(patchset)
          /\ \A k \in 1..Len(patchset) :
                 IF k < Len(patchset) THEN patchset'[k] = patchset[k]
                 ELSE /\ Len(patchset'[k].hunks) >= Len(patchset[k].hunks)
                      /\ SubSeq(patchset'[k].hunks, 1, Len(patchset[k].hunks))
                             = patchset[k].hunks]_vars
    /\ [][pc = "hunk" /\ pc' = "scan" =>
              /\ current_file' = current_file
              /\ current_file = Len(patchset)]_vars

C14_Witness ==
    /\ pc = "scan"
    /\ Len(patchset) = 2
    /\ current_file = 2
    /\ patchset[1].hunks = <<>>
    /\ Len(patchset[2].hunks) = 1

(* C15 *)

\* The line is none of the three headers.
NoHeader(l) ==
    /\ ~LitAt(l, 1, <<"-", "-", "-", " ">>)
    /\ ~LitAt(l, 1, <<"+", "+", "+", " ">>)
    /\ ~LitAt(l, 1, <<"@", "@", " ">>)

\* C15: a line read by the scanner that is no source header, no target
\* header and no hunk header changes nothing but the position in the input:
\* the scanner goes on with the same remembered source header, the same
\* current file and the same patch set, and raises no error.
C15_OtherLinesIgnored ==
    [][(/\ pc = "scan"
        /\ PullsOne
        /\ NoHeader(diff'[Len(diff')]))
       => UNCHANGED <<pc, patchset, current_file, source_file,
                      source_timestamp, hunk, source_line_no, target_line_no,
                      truncated, error, result>>]_vars

C15_Witness ==
    /\ pc = "scan"
    /\ Len(diff) >= 5
    /\ by[Len(by)] = "scan"
    /\ NoHeader(diff[Len(diff)])
    /\ current_file = 1
    /\ Len(patchset[1].hunks) = 1
    /\ source_file # None

(* C16 *)

\* C16: when the iterator reports the end of the input while a hunk is
\* under assembly, no error is raised: the hunk is stored as it is at the
\* end of its file and the scanner takes over; the scanner, finding the
\* input at its end, completes the parse and returns the patch set, with
\* that hunk in it.
C16_TruncatedHunkKept ==
    /\ [][(pc = "hunk" /\ stops' # stops)
          => (/\ pc' = "scan"
              /\ error' = None
              /\ hunk' = None
              /\ patchset' = [patchset EXCEPT ![current_file].hunks =
                                  Append(@, hunk.val)]
              /\ truncated' = truncated \cup
                     {<<current_file, Len(patchset'[current_file].hunks)>>})]_vars
    /\ [][(pc = "scan" /\ stops' # stops)
          => (/\ pc' = "done"
              /\ error' = None
              /\ result' = Some(patchset))]_vars
    /\ [](\A p \in truncated :
              /\ p[1] \in 1..Len(patchset)
              /\ p[2] \in 1..Len(patchset[p[1]].hunks))
    /\ [](pc = "done" => result = Some(patchset))

C16_Witness ==
    /\ pc = "done"
    /\ Len(result.val) >= 1
    /\ truncated = {<<Len(result.val), Len(result.val[Len(result.val)].hunks)>>}
    /\ stops = <<Len(raw), Len(raw)>>
    /\ LET hs == result.val[Len(result.val)].hunks
       IN  /\ Len(hs) >= 1
           /\ Len(hs[Len(hs)].lines) >= 2
           /\ ~CountsMet(hs[Len(hs)])

(* C17 *)

\* C17: a blank line pulled by the hunk assembler becomes the next line of
\* the hunk, as a context line carrying the current source and the current
\* target line number; both counters go up by one, and the line counts on
\* the source side and on the target side of the validity test.
C17_BlankLineIsContext ==
    [][(/\ pc = "hunk"
        /\ PullsOne
        /\ diff'[Len(diff')] = <<"\n">>)
       => LET h == IF pc' = "hunk" THEN hunk'.val
                   ELSE patchset'[current_file].hunks[
                            Len(patchset'[current_file].hunks)]
              l == h.lines[Len(h.lines)]
          IN  /\ pc' \in {"hunk", "scan"}
              /\ error' = None
              /\ Len(h.lines) = Len(hunk.val.lines) + 1
              /\ h.lines = Append(hunk.val.lines, l)
              /\ l.line_type = " "
              /\ l.source_line_no = Some(source_line_no)
              /\ l.target_line_no = Some(target_line_no)
              /\ Len(source_lines(h)) = Len(source_lines(hunk.val)) + 1
              /\ Len(target_lines(h)) = Len(target_lines(hunk.val)) + 1
              /\ pc' = "hunk" => /\ source_line_no' = source_line_no + 1
                                 /\ target_line_no' = target_line_no + 1
              /\ pc' = "scan" => is_valid(h)]_vars

C17_Witness ==
    /\ pc = "scan"
    /\ Len(diff) >= 5
    /\ diff[Len(diff)] = <<"\n">>
    /\ by[Len(by)] = "hunk"
    /\ \E h \in AllHunks :
           /\ Len(h.lines) = 2
           /\ h.lines[2].value = <<"\n">>
           /\ h.lines[2].source_line_no = Some(12)
           /\ h.lines[2].target_line_no = Some(3)
           /\ CountsMet(h)

(* C18 *)

\* State of the scanner before it reads line n, told from the lines read
\* so far: a source header is remembered and no target header has used it;
\* a target header has opened a file and no source header has closed it.
AwaitingTargetAt(n) ==
    /\ SourcesBefore(n) # {}
    /\ \A j \in (LastSourceBefore(n) + 1)..(n - 1) : ~IsScanTarget(j)

InFileAt(n) ==
    \E j \in 1..(n - 1) :
        /\ IsScanTarget(j)
        /\ \A m \in (j + 1)..(n - 1) : ~IsScanSource(m)

\* Line n is one of the three causes of a parse failure.
CauseAt(n) ==
    \/ IsScanTarget(n) /\ ~AwaitingTargetAt(n)
    \/ IsScanHunk(n) /\ ~InFileAt(n)
    \/ by[n] = "hunk" /\ Unrecognized(diff[n])

\* C18 as stated: the parse fails only on a target header read outside the
\* state that awaits one, on a hunk header read outside a file, or on a line
\* with an unknown marker pulled by the hunk assembler: a parse in an error
\* state has just read such a line, and a parse that read none is in no
\* error state and, once the input ends, has returned its patch set.
C18_OnlyThreeCauses ==
    /\ pc = "error" => (Len(diff) >= 1 /\ CauseAt(Len(diff)))
    /\ (\A n \in 1..Len(diff) : ~CauseAt(n)) =>
           /\ pc # "error"
           /\ error = None
           /\ pc = "done" => result = Some(patchset)

\* C18, amended: the parse fails only on one of these three lines or when no
\* line can be had: the iterator raises an error of its own, or hands out
\* an item that cannot be read as text (bytes that the given encoding does
\* not decode, a str when an encoding is given, bytes when none is).  A
\* parse in an error state has just read such a line or failed to get one,
\* and a parse that did neither is in no error state and, once the input
\* ends, has returned its patch set.
C18_ThreeCausesOrNoLine ==
    /\ pc = "error" =>
           \/ PullFailed
           \/ LineFailed /\ Len(raw) = Len(diff) /\ Len(diff) >= 1
                  /\ CauseAt(Len(diff))
    /\ ((\A n \in 1..Len(diff) : ~CauseAt(n)) /\ ~PullFailed) =>
           /\ pc # "error"
           /\ error = None
           /\ pc = "done" => result = Some(patchset)
    /\ (\E n \in 1..Len(diff) : CauseAt(n)) => LineFailed

C18_Witness ==
    /\ pc = "done"
    /\ Len(diff) >= 5
    /\ \A n \in 1..Len(diff) : ~CauseAt(n)
    /\ \E n \in 1..Len(diff) : IsScanTarget(n)
    /\ \E n \in 1..Len(diff) : IsScanHunk(n)
    /\ \E n \in 1..Len(diff) : by[n] = "hunk"

(* C19 *)

\* C19: no hunk, stored or under assembly, ever holds more source side
\* lines than its declared source length or more target side lines than
\* its declared target length.
C19_NeverExceedsDeclared ==
    \A h \in AllHunks :
        /\ SourceCount(h) <= h.source_length
        /\ TargetCount(h) <= h.target_length

(* C20 *)

\* C20: after a hunk header that declares source length 0 and target
\* length 0 the hunk assembler pulls no line: the line that follows such a
\* header, if any, is read by the scanner.
C20_EmptyHunkPullsNothing ==
    \A i \in 2..Len(diff) :
        (/\ IsScanHunk(i - 1)
         /\ Declared(diff[i - 1])[2] = 0
         /\ Declared(diff[i - 1])[4] = 0)
        => by[i] = "scan"

====
